---- MODULE Spec2Model ----
(***************************************************************************)
(* State-machine model of src/app/page.tsx, the Home component of the      *)
(* bookmark vault: the session store, the mirror of the user's bookmark    *)
(* rows, the derived (filtered and sorted) view, the create/edit form and  *)
(* the optimistic delete, together with the auth, storage and realtime     *)
(* collaborators the component talks to.                                   *)
(*                                                                         *)
(* Text is modelled as a sequence of one-character strings, so that        *)
(* trim(), toLowerCase(), includes() and localeCompare() are computed      *)
(* and not assumed.                                                        *)
(***************************************************************************)
EXTENDS Integers, Sequences, FiniteSets, TLC

(***************************************************************************)
(* Bounds of the model.                                                    *)
(***************************************************************************)
\* longest mirror drawn for the derived-view specification
MaxLen == 3
\* rows the storage collaborator creates in one run (identifiers 1..MaxId)
MaxId == 2
\* bulk fetches in flight at once
MaxFetch == 1
\* create/update writes in flight at once
MaxWrites == 2
\* delete requests in flight at once
MaxDeletes == 1
\* realtime events queued on the channel at once
MaxEvents == 1
\* identity changes the auth collaborator makes in one run
MaxAuthChanges == 2
\* pending toast timers
MaxTimers == 2

(***************************************************************************)
(* Values.                                                                 *)
(***************************************************************************)
Users == {"A", "B"}
\* user === null
NoUser == "none"
\* a column that is null in the row (tag?: string)
Null == "null"
\* a text column that is null in the row (description?: string): no text of
\* the model, whose characters are single letters, equals it
NullText == <<"null">>
\* deleteTarget === null, editId === null
NoId == 0

\* src/app/page.tsx:16
TAG_OPTIONS == <<"Design", "Dev", "Reading", "Tools", "Research", "Misc">>

Range(s) == {s[i] : i \in 1..Len(s)}

(***************************************************************************)
(* Text.                                                                   *)
(***************************************************************************)
IsSpace(c) == c = " "

\* String.prototype.toLowerCase on one character of the model's alphabet
LowerChar(c) ==
    CASE c = "A" -> "a"
      [] c = "B" -> "b"
      [] c = "X" -> "x"
      [] OTHER -> c

toLowerCase(s) == [i \in 1..Len(s) |-> LowerChar(s[i])]

\* String.prototype.includes: q occurs in s as a contiguous run
includes(s, q) ==
    \E i \in 1..(Len(s) + 1) :
        /\ i + Len(q) - 1 <= Len(s)
        /\ SubSeq(s, i, i + Len(q) - 1) = q

RECURSIVE trimStart(_)
trimStart(s) ==
    IF s # <<>> /\ IsSpace(Head(s)) THEN trimStart(Tail(s)) ELSE s

RECURSIVE trimEnd(_)
trimEnd(s) ==
    IF s # <<>> /\ IsSpace(s[Len(s)]) THEN trimEnd(SubSeq(s, 1, Len(s) - 1)) ELSE s

\* String.prototype.trim
trim(s) == trimEnd(trimStart(s))

\* Collation weights of String.prototype.localeCompare (root collation):
\* the primary weight orders space before letters and ignores case, the
\* tertiary weight orders the lower-case letter before its capital.
Primary(c) ==
    CASE c = " " -> 0
      [] c \in {"a", "A"} -> 1
      [] c \in {"b", "B"} -> 2
      [] c \in {"x", "X"} -> 3
      [] OTHER -> 4

Tertiary(c) == IF c \in {"A", "B", "X"} THEN 1 ELSE 0

\* lexicographic comparison of two weight sequences: -1, 0 or 1
RECURSIVE LexCmp(_, _)
LexCmp(a, b) ==
    IF a = <<>> /\ b = <<>> THEN 0
    ELSE IF a = <<>> THEN -1
    ELSE IF b = <<>> THEN 1
    ELSE IF Head(a) < Head(b) THEN -1
    ELSE IF Head(a) > Head(b) THEN 1
    ELSE LexCmp(Tail(a), Tail(b))

\* code-unit comparison (capitals first): what a < b on strings computes
CodeUnit(c) ==
    CASE c = " " -> 32
      [] c = "A" -> 65
      [] c = "B" -> 66
      [] c = "X" -> 88
      [] c = "a" -> 97
      [] c = "b" -> 98
      [] c = "x" -> 120
      [] OTHER -> 127

CodeUnitCompare(a, b) ==
    LexCmp([i \in 1..Len(a) |-> CodeUnit(a[i])], [i \in 1..Len(b) |-> CodeUnit(b[i])])

\* a.localeCompare(b)
localeCompare(a, b) ==
    LET p == LexCmp([i \in 1..Len(a) |-> Primary(a[i])],
                    [i \in 1..Len(b) |-> Primary(b[i])])
    IN IF p # 0 THEN p
       ELSE LexCmp([i \in 1..Len(a) |-> Tertiary(a[i])],
                   [i \in 1..Len(b) |-> Tertiary(b[i])])

\* new Date(created_at).getTime(): created_at is held as the instant the
\* timestamp text denotes, in milliseconds
getTime(created_at) == created_at

(***************************************************************************)
(* The derived view: the effect of lines 135-149.                          *)
(***************************************************************************)
\* a search that looks at the title alone
matchesTitleOnly(b, q) == includes(toLowerCase(b.title), q)

\* the search predicate of lines 139-143
matchesSearch(b, q) ==
    \/ includes(toLowerCase(b.title), q)
    \/ includes(toLowerCase(b.url), q)
    \/ (b.description # NullText /\ includes(toLowerCase(b.description), q))

\* the comparator of line 146
oldestCompare(a, b) == getTime(a.created_at) - getTime(b.created_at)

\* a title comparator on code units, which puts every capital first
alphaCompareCodeUnits(a, b) == CodeUnitCompare(a.title, b.title)

\* the comparator of line 147
alphaCompare(a, b) == localeCompare(a.title, b.title)

\* the comparator the sort key selects
compareBy(sBy, a, b) ==
    IF sBy = "oldest" THEN oldestCompare(a, b) ELSE alphaCompare(a, b)

\* insertion of x into the sorted run s, after every element that does not
\* compare greater than it (what keeps the sort stable)
RECURSIVE sortInsert(_, _, _)
sortInsert(s, x, sBy) ==
    IF s = <<>> THEN <<x>>
    ELSE IF compareBy(sBy, Head(s), x) > 0 THEN <<x>> \o s
    ELSE <<Head(s)>> \o sortInsert(Tail(s), x, sBy)

RECURSIVE sortFrom(_, _, _)
sortFrom(done, rest, sBy) ==
    IF rest = <<>> THEN done
    ELSE sortFrom(sortInsert(done, Head(rest), sBy), Tail(rest), sBy)

\* Array.prototype.sort with the comparator of the sort key (stable)
sort(s, sBy) == sortFrom(<<>>, s, sBy)

\* result.filter of lines 139-143
searchFilter(bms, srch) ==
    LET q == toLowerCase(srch)
        Hit(b) == matchesSearch(b, q)
    IN IF srch # <<>> THEN SelectSeq(bms, Hit) ELSE bms

\* a tag filter that lets untagged rows through
tagFilterLoose(bms, aTag) ==
    LET HasTag(b) == b.tag = aTag \/ b.tag \in {"", Null}
    IN IF aTag # "All" THEN SelectSeq(bms, HasTag) ELSE bms

\* result.filter of line 145
tagFilter(bms, aTag) ==
    LET HasTag(b) == b.tag = aTag
    IN IF aTag # "All" THEN SelectSeq(bms, HasTag) ELSE bms

\* a sort step that orders the records newest first under the key 'newest'
sortResultNewestFirst(bms, sBy) ==
    IF sBy \in {"oldest", "alpha"} THEN sort(bms, sBy)
    ELSE LET up == sort(bms, "oldest")
         IN [i \in 1..Len(up) |-> up[Len(up) + 1 - i]]

\* lines 146-147
sortResult(bms, sBy) ==
    IF sBy \in {"oldest", "alpha"} THEN sort(bms, sBy) ELSE bms

computeFiltered(bms, srch, aTag, sBy) ==
    sortResult(tagFilter(searchFilter(bms, srch), aTag), sBy)

(***************************************************************************)
(* State.                                                                  *)
(***************************************************************************)
VARIABLES
    \* useState of lines 49-67
    user, loading, bookmarks, filtered,
    title, url, description, tag,
    search, activeTag, sortBy,
    panelOpen, deleteTarget, toastMsg, editId, submitting,
    \* useRef of line 72
    userIdRef,
    \* setTimeout callbacks of toast() not yet run
    toastTimers,
    \* the realtime channel of the effect of lines 114-133
    channel,
    \* the auth collaborator: its session, the changes it made, the
    \* getSession() request, the notifications not yet handled
    authSession, authChanges, sessionReq, authEvents,
    \* the storage collaborator: the bookmarks table and its next identifier
    db, nextId,
    \* requests in flight: select, insert/update, delete
    fetchReqs, writeReqs, deleteReqs,
    \* postgres_changes events sent on the channel and not yet handled
    events,
    \* the handler that ran last
    last

pageVars == <<user, loading, bookmarks, filtered, title, url, description, tag,
              search, activeTag, sortBy, panelOpen, deleteTarget, toastMsg,
              editId, submitting, userIdRef, toastTimers, channel>>
envVars == <<authSession, authChanges, sessionReq, authEvents, db, nextId,
             fetchReqs, writeReqs, deleteReqs, events>>
vars == <<pageVars, envVars, last>>

formVars == <<title, url, description, tag, editId>>
filterVars == <<search, activeTag, sortBy>>
toastVars == <<toastMsg, toastTimers>>
authVars == <<authSession, authChanges, sessionReq, authEvents>>
sessionVars == <<user, loading, userIdRef, channel>>

\* toastMsg === null
NoToast == "none"

\* no channel is open
NoChannel == [filter |-> NoUser, joined |-> FALSE]

\* a row of the bookmarks table (type Bookmark, lines 6-14, and user_id)
Row(i, u, t, l, d, g, c) ==
    [id |-> i, user_id |-> u, title |-> t, url |-> l, description |-> d,
     tag |-> g, created_at |-> c]

NoRow == Row(NoId, NoUser, <<>>, <<>>, NullText, Null, 0)

Ids(bms) == {bms[i].id : i \in 1..Len(bms)}

\* an effect whose dependency list lacks `search`
RecomputeFilteredStale ==
    filtered' = IF search' # search THEN filtered
                ELSE computeFiltered(bookmarks', search', activeTag', sortBy')

\* the effect of lines 135-149 runs after every render that changed one of
\* its dependencies
RecomputeFiltered ==
    filtered' = computeFiltered(bookmarks', search', activeTag', sortBy')

\* the view of lines 234-548 is on screen
Rendered == ~loading /\ user # NoUser

\* no modal overlay covers the page
NoOverlay == ~panelOpen /\ deleteTarget = NoId

(***************************************************************************)
(* The storage collaborator.                                               *)
(***************************************************************************)
\* row level security: the rows the holder of `who`'s token may read
RowsOf(who) == {r \in db : r.user_id = who}

\* .order("created_at", { ascending: false }): every order of the rows that
\* is non-increasing in created_at
OrderedRows(who) ==
    LET rows == RowsOf(who)
        n == Cardinality(rows)
    IN {s \in [1..n -> rows] :
           /\ \A i, j \in 1..n : i # j => s[i] # s[j]
           /\ \A i \in 1..(n - 1) : s[i].created_at >= s[i + 1].created_at}

\* the channel delivers changes of rows of `owner`
Subscribed(owner) == channel.joined /\ channel.filter = owner

CanEmit(owner) == Subscribed(owner) => Len(events) < MaxEvents

Emit(kind, new, old, owner) ==
    IF Subscribed(owner)
    THEN Append(events, [eventType |-> kind, new |-> new, old |-> old])
    ELSE events

RemoveAt(s, i) == SubSeq(s, 1, i - 1) \o SubSeq(s, i + 1, Len(s))

\* the handlers `last` tells apart; a step of any other is recorded as "-"
Recorded == {"handleDelete", "RefetchResolve", "SubmitEnter", "INSERT",
             "UPDATE", "DELETE", "WriteResolve"}

Did(op, id, ok) ==
    last' = IF op \in Recorded THEN [op |-> op, id |-> id, ok |-> ok]
            ELSE [op |-> "-", id |-> NoId, ok |-> TRUE]

(***************************************************************************)
(* Session store: the effect of lines 94-103.                              *)
(***************************************************************************)
\* a fetchBookmarks that returns without sending the request
fetchBookmarksSkipped(ref, after) == fetchReqs

\* fetchBookmarks, lines 105-110: the select request it sends, if any.
\* `after` is the identifier of the bookmark whose failed delete asked for
\* the fetch (line 185), NoId for the fetch of the effect (line 117).
fetchBookmarks(ref, after) ==
    IF ref = NoUser THEN fetchReqs
    ELSE Append(fetchReqs, [who |-> authSession, after |-> after,
                            stage |-> "sent", ok |-> FALSE, data |-> <<>>])

\* an effect without the cleanup of line 132: the channel opened for the
\* previous user stays open when the user signs out
UserEffectNoCleanup(u) ==
    IF u = user \/ u = NoUser
    THEN UNCHANGED <<userIdRef, channel, events, fetchReqs>>
    ELSE /\ Len(fetchReqs) < MaxFetch
         /\ userIdRef' = u
         /\ fetchReqs' = fetchBookmarks(u, NoId)
         /\ channel' = [filter |-> u, joined |-> FALSE]
         /\ events' = <<>>

\* the effect of lines 114-133 and its cleanup, run when `user` becomes u
UserEffect(u) ==
    IF u = user
    THEN UNCHANGED <<userIdRef, channel, events, fetchReqs>>
    ELSE IF u = NoUser
    THEN /\ channel' = NoChannel
         /\ events' = <<>>
         /\ UNCHANGED <<userIdRef, fetchReqs>>
    ELSE /\ Len(fetchReqs) < MaxFetch
         /\ userIdRef' = u
         /\ fetchReqs' = fetchBookmarks(u, NoId)
         /\ channel' = [filter |-> u, joined |-> FALSE]
         /\ events' = <<>>

\* the auth collaborator answers getSession() with the session it holds
ServeSession ==
    /\ sessionReq.stage = "sent"
    /\ sessionReq' = [stage |-> "served", val |-> authSession]
    /\ Did("ServeSession", NoId, TRUE)
    /\ UNCHANGED <<pageVars, authSession, authChanges, authEvents, db, nextId,
                   fetchReqs, writeReqs, deleteReqs, events>>

\* a getSession callback that ends the loading state only when the response
\* carries a session
GetSessionResolveSignedIn ==
    /\ sessionReq.stage = "served"
    /\ sessionReq' = [sessionReq EXCEPT !.stage = "done"]
    /\ user' = sessionReq.val
    /\ loading' = (sessionReq.val = NoUser)
    /\ UserEffect(sessionReq.val)
    /\ Did("GetSessionResolve", NoId, TRUE)
    /\ UNCHANGED <<bookmarks, formVars, filterVars, panelOpen, deleteTarget,
                   toastVars, submitting, authSession, authChanges, authEvents,
                   db, nextId, writeReqs, deleteReqs>>
    /\ RecomputeFiltered

\* lines 95-98
GetSessionResolve ==
    /\ sessionReq.stage = "served"
    /\ sessionReq' = [sessionReq EXCEPT !.stage = "done"]
    /\ user' = sessionReq.val
    /\ loading' = FALSE
    /\ UserEffect(sessionReq.val)
    /\ Did("GetSessionResolve", NoId, TRUE)
    /\ UNCHANGED <<bookmarks, formVars, filterVars, panelOpen, deleteTarget,
                   toastVars, submitting, authSession, authChanges, authEvents,
                   db, nextId, writeReqs, deleteReqs>>
    /\ RecomputeFiltered

\* a sign-out, or a sign-in from the login page of lines 201-232, in another
\* tab of the browser changes the session and notifies the
\* onAuthStateChange subscriber
AuthChange(u) ==
    /\ authChanges < MaxAuthChanges
    /\ u # authSession
    /\ u = NoUser \/ authSession = NoUser
    /\ authSession' = u
    /\ authChanges' = authChanges + 1
    /\ authEvents' = Append(authEvents, u)
    /\ Did("AuthChange", NoId, TRUE)
    /\ UNCHANGED <<pageVars, sessionReq, db, nextId, fetchReqs, writeReqs,
                   deleteReqs, events>>

\* lines 99-101
HandleAuthEvent ==
    /\ authEvents # <<>>
    /\ authEvents' = Tail(authEvents)
    /\ user' = Head(authEvents)
    /\ UserEffect(Head(authEvents))
    /\ Did("HandleAuthEvent", NoId, TRUE)
    /\ UNCHANGED <<loading, bookmarks, formVars, filterVars, panelOpen,
                   deleteTarget, toastVars, submitting, authSession,
                   authChanges, sessionReq, db, nextId, writeReqs, deleteReqs>>
    /\ RecomputeFiltered

(***************************************************************************)
(* Remote collection mirror: lines 105-133.                                *)
(***************************************************************************)
\* the realtime collaborator confirms the subscription of line 131
ChannelJoin ==
    /\ channel # NoChannel
    /\ ~channel.joined
    /\ channel' = [channel EXCEPT !.joined = TRUE]
    /\ Did("ChannelJoin", NoId, TRUE)
    /\ UNCHANGED <<user, loading, bookmarks, filtered, formVars, filterVars,
                   panelOpen, deleteTarget, toastVars, submitting, userIdRef,
                   envVars>>

\* the storage collaborator answers a select: an error, or the rows the
\* requester may read, newest first
ServeFetch(i, ok) ==
    /\ fetchReqs[i].stage = "sent"
    /\ \E rows \in (IF ok THEN OrderedRows(fetchReqs[i].who) ELSE {<<>>}) :
           fetchReqs' = [fetchReqs EXCEPT ![i] =
               [@ EXCEPT !.stage = "served", !.ok = ok, !.data = rows]]
    /\ Did("ServeFetch", NoId, ok)
    /\ UNCHANGED <<pageVars, authVars, db, nextId, writeReqs, deleteReqs, events>>

\* a fetchBookmarks without the error test of line 111: an error, which
\* carries no data, empties the mirror
applyFetchUnchecked(prev, ok, data) == IF ok THEN data ELSE <<>>

\* line 111
applyFetch(prev, ok, data) == IF ok THEN data ELSE prev

\* lines 107-111, after the await
FetchResolve(i) ==
    /\ fetchReqs[i].stage = "served"
    /\ bookmarks' = applyFetch(bookmarks, fetchReqs[i].ok, fetchReqs[i].data)
    /\ fetchReqs' = RemoveAt(fetchReqs, i)
    /\ Did(IF fetchReqs[i].after # NoId THEN "RefetchResolve" ELSE "FetchResolve",
           fetchReqs[i].after, fetchReqs[i].ok)
    /\ UNCHANGED <<sessionVars, formVars, filterVars, panelOpen, deleteTarget,
                   toastVars, submitting, authVars, db, nextId, writeReqs,
                   deleteReqs, events>>
    /\ RecomputeFiltered

\* a handler that keeps the mirror newest first: an inserted row is placed
\* before the first row that is not newer than it
RECURSIVE insertByTime(_, _)
insertByTime(prev, row) ==
    IF prev = <<>> THEN <<row>>
    ELSE IF Head(prev).created_at <= row.created_at THEN <<row>> \o prev
    ELSE <<Head(prev)>> \o insertByTime(Tail(prev), row)

applyEventSorted(prev, payload) ==
    CASE payload.eventType = "INSERT" -> insertByTime(prev, payload.new)
      [] payload.eventType = "DELETE" ->
            LET Other(b) == b.id # payload.old.id IN SelectSeq(prev, Other)
      [] payload.eventType = "UPDATE" ->
            [i \in 1..Len(prev) |->
                IF prev[i].id = payload.new.id THEN payload.new ELSE prev[i]]
      [] OTHER -> prev

\* a handler that tests for the event names in lower case, and so ignores
\* every event
applyEventIgnored(prev, payload) ==
    CASE payload.eventType = "insert" -> <<payload.new>> \o prev
      [] OTHER -> prev

\* a handler whose update inserts the record when the mirror lacks it
applyEventUpsert(prev, payload) ==
    CASE payload.eventType = "INSERT" -> <<payload.new>> \o prev
      [] payload.eventType = "DELETE" ->
            LET Other(b) == b.id # payload.old.id IN SelectSeq(prev, Other)
      [] payload.eventType = "UPDATE" ->
            IF \E i \in 1..Len(prev) : prev[i].id = payload.new.id
            THEN [i \in 1..Len(prev) |->
                     IF prev[i].id = payload.new.id THEN payload.new ELSE prev[i]]
            ELSE <<payload.new>> \o prev
      [] OTHER -> prev

\* a handler whose update moves the record to the front of the mirror
applyEventMoveToFront(prev, payload) ==
    CASE payload.eventType = "INSERT" -> <<payload.new>> \o prev
      [] payload.eventType = "DELETE" ->
            LET Other(b) == b.id # payload.old.id IN SelectSeq(prev, Other)
      [] payload.eventType = "UPDATE" ->
            LET Other(b) == b.id # payload.new.id
            IN IF \E i \in 1..Len(prev) : prev[i].id = payload.new.id
               THEN <<payload.new>> \o SelectSeq(prev, Other)
               ELSE prev
      [] OTHER -> prev

\* a handler whose delete looks for the identifier in payload.new, which a
\* delete event leaves empty
applyEventDeleteByNew(prev, payload) ==
    CASE payload.eventType = "INSERT" -> <<payload.new>> \o prev
      [] payload.eventType = "DELETE" ->
            LET Other(b) == b.id # payload.new.id IN SelectSeq(prev, Other)
      [] payload.eventType = "UPDATE" ->
            [i \in 1..Len(prev) |->
                IF prev[i].id = payload.new.id THEN payload.new ELSE prev[i]]
      [] OTHER -> prev

\* lines 121-129: the mirror after one postgres_changes payload
applyEvent(prev, payload) ==
    CASE payload.eventType = "INSERT" -> <<payload.new>> \o prev
      [] payload.eventType = "DELETE" ->
            LET Other(b) == b.id # payload.old.id IN SelectSeq(prev, Other)
      [] payload.eventType = "UPDATE" ->
            [i \in 1..Len(prev) |->
                IF prev[i].id = payload.new.id THEN payload.new ELSE prev[i]]
      [] OTHER -> prev

\* the callback of lines 121-129 on the oldest undelivered event
HandleEvent ==
    /\ events # <<>>
    /\ events' = Tail(events)
    /\ bookmarks' = applyEvent(bookmarks, Head(events))
    /\ Did(Head(events).eventType, IF Head(events).eventType = "DELETE"
                                   THEN Head(events).old.id
                                   ELSE Head(events).new.id, TRUE)
    /\ UNCHANGED <<sessionVars, formVars, filterVars, panelOpen, deleteTarget,
                   toastVars, submitting, authVars, db, nextId, fetchReqs,
                   writeReqs, deleteReqs>>
    /\ RecomputeFiltered

\* tags a row written by another session may carry
ElsewhereTags == {Null}

\* another session of user u (another tab) saves a bookmark
CreateElsewhere(u, g, c) ==
    /\ nextId <= MaxId
    /\ CanEmit(u)
    /\ LET row == Row(nextId, u, <<"a">>, <<"x">>, NullText, g, c)
       IN /\ db' = db \cup {row}
          /\ events' = Emit("INSERT", row, NoRow, u)
    /\ nextId' = nextId + 1
    /\ Did("CreateElsewhere", nextId, TRUE)
    /\ UNCHANGED <<pageVars, authVars, fetchReqs, writeReqs, deleteReqs>>

(***************************************************************************)
(* Notifications: toast, lines 76-79.                                      *)
(***************************************************************************)
\* toast(msg): show msg and start a timer that clears whatever is shown
toast(msg) ==
    /\ toastTimers < MaxTimers
    /\ toastMsg' = msg
    /\ toastTimers' = toastTimers + 1

\* the callback of line 78
ToastTimeout ==
    /\ toastTimers > 0
    /\ toastTimers' = toastTimers - 1
    /\ toastMsg' = NoToast
    /\ Did("ToastTimeout", NoId, TRUE)
    /\ UNCHANGED <<sessionVars, bookmarks, filtered, formVars, filterVars,
                   panelOpen, deleteTarget, submitting, envVars>>

(***************************************************************************)
(* Delete: lines 180-186 and the confirmation dialog of lines 513-538.     *)
(***************************************************************************)
\* onDelete of a card or row, lines 584 and 618
RequestDelete(id) ==
    /\ Rendered /\ NoOverlay
    /\ id \in Ids(filtered)
    /\ deleteTarget' = id
    /\ Did("RequestDelete", id, TRUE)
    /\ UNCHANGED <<sessionVars, bookmarks, filtered, formVars, filterVars,
                   panelOpen, toastVars, submitting, envVars>>

\* lines 515 and 525
CancelDelete ==
    /\ Rendered /\ deleteTarget # NoId
    /\ deleteTarget' = NoId
    /\ Did("CancelDelete", deleteTarget, TRUE)
    /\ UNCHANGED <<sessionVars, bookmarks, filtered, formVars, filterVars,
                   panelOpen, toastVars, submitting, envVars>>

\* a handleDelete that waits for the backend before touching the mirror
optimisticRemoveLate(prev, id) == prev

\* line 181
optimisticRemove(prev, id) ==
    LET Other(b) == b.id # id IN SelectSeq(prev, Other)

\* handleDelete(deleteTarget) up to its await, lines 181-184
ConfirmDelete ==
    /\ Rendered /\ deleteTarget # NoId
    /\ Len(deleteReqs) < MaxDeletes
    /\ bookmarks' = optimisticRemove(bookmarks, deleteTarget)
    /\ deleteTarget' = NoId
    /\ toast("Bookmark deleted")
    /\ deleteReqs' = Append(deleteReqs, [id |-> deleteTarget, who |-> authSession,
                                         stage |-> "sent", ok |-> FALSE])
    /\ Did("handleDelete", deleteTarget, TRUE)
    /\ UNCHANGED <<sessionVars, formVars, filterVars, panelOpen, submitting,
                   authVars, db, nextId, fetchReqs, writeReqs, events>>
    /\ RecomputeFiltered

\* the storage collaborator answers a delete. Row level security lets the
\* owner alone delete a row; an error response may follow a delete that took
\* place (the response was lost) or one that did not.
ServeDelete(i, ok, applied) ==
    /\ deleteReqs[i].stage = "sent"
    /\ LET hit == {r \in RowsOf(deleteReqs[i].who) : r.id = deleteReqs[i].id}
       IN /\ applied => hit # {}
          /\ ok => (applied <=> hit # {})
          /\ \A r \in hit : CanEmit(r.user_id)
          /\ db' = IF applied THEN db \ hit ELSE db
          /\ events' = IF applied /\ hit # {}
                       THEN LET r == CHOOSE x \in hit : TRUE
                            IN Emit("DELETE", NoRow, r, r.user_id)
                       ELSE events
    /\ deleteReqs' = [deleteReqs EXCEPT ![i] = [@ EXCEPT !.stage = "served", !.ok = ok]]
    /\ Did("ServeDelete", deleteReqs[i].id, ok)
    /\ UNCHANGED <<pageVars, authVars, nextId, fetchReqs, writeReqs>>

\* handleDelete after its await, line 185
DeleteResolve(i) ==
    /\ deleteReqs[i].stage = "served"
    /\ deleteReqs' = RemoveAt(deleteReqs, i)
    /\ IF deleteReqs[i].ok
       THEN UNCHANGED <<toastVars, fetchReqs>>
       ELSE /\ toast("Delete failed")
            /\ Len(fetchReqs) < MaxFetch
            /\ fetchReqs' = fetchBookmarks(userIdRef, deleteReqs[i].id)
    /\ Did("DeleteResolve", deleteReqs[i].id, deleteReqs[i].ok)
    /\ UNCHANGED <<sessionVars, bookmarks, filtered, formVars, filterVars,
                   panelOpen, deleteTarget, submitting, authVars, db, nextId,
                   writeReqs, events>>

(***************************************************************************)
(* Filter bar: lines 263-272, 381-405.                                     *)
(***************************************************************************)
\* line 188
allTags ==
    LET Present(t) == \E i \in 1..Len(bookmarks) : bookmarks[i].tag = t
    IN <<"All">> \o SelectSeq(TAG_OPTIONS, Present)

\* text the user types into the search box
Queries == {<<>>, <<"a">>, <<"A">>, <<"a", "b">>, <<"x">>}

\* lines 267 and 272
SetSearch(q) ==
    /\ Rendered /\ NoOverlay
    /\ q # search
    /\ search' = q
    /\ Did("SetSearch", NoId, TRUE)
    /\ UNCHANGED <<sessionVars, bookmarks, formVars, activeTag, sortBy,
                   panelOpen, deleteTarget, toastVars, submitting, envVars>>
    /\ RecomputeFiltered

\* line 384
SetActiveTag(t) ==
    /\ Rendered /\ NoOverlay
    /\ t \in Range(allTags)
    /\ t # activeTag
    /\ activeTag' = t
    /\ Did("SetActiveTag", NoId, TRUE)
    /\ UNCHANGED <<sessionVars, bookmarks, formVars, search, sortBy,
                   panelOpen, deleteTarget, toastVars, submitting, envVars>>
    /\ RecomputeFiltered

\* a sort key change whose effect sorts the mirror itself instead of a copy
SetSortByInPlace(k) ==
    /\ Rendered /\ NoOverlay
    /\ k # sortBy
    /\ sortBy' = k
    /\ bookmarks' = sortResult(bookmarks, k)
    /\ Did("SetSortBy", NoId, TRUE)
    /\ UNCHANGED <<sessionVars, formVars, search, activeTag,
                   panelOpen, deleteTarget, toastVars, submitting, envVars>>
    /\ RecomputeFiltered

\* line 398
SetSortBy(k) ==
    /\ Rendered /\ NoOverlay
    /\ k # sortBy
    /\ sortBy' = k
    /\ Did("SetSortBy", NoId, TRUE)
    /\ UNCHANGED <<sessionVars, bookmarks, formVars, search, activeTag,
                   panelOpen, deleteTarget, toastVars, submitting, envVars>>
    /\ RecomputeFiltered

(***************************************************************************)
(* Create/edit form: lines 155-178 and the panel of lines 450-510.         *)
(***************************************************************************)
\* text the user types into the form
Titles == {<<>>, <<" ">>, <<"a">>}
Urls == {<<>>, <<"x">>}
Notes == {<<>>, <<"b">>}
\* tag buttons the user presses
FormTags == {"Dev"}

\* x || "" of line 161
orEmptyText(x) == IF x = NullText THEN <<>> ELSE x
orEmptyTag(x) == IF x = Null THEN "" ELSE x

\* a resetForm that leaves the edit target set
resetFormKeepsTarget ==
    /\ title' = <<>>
    /\ url' = <<>>
    /\ description' = <<>>
    /\ tag' = ""
    /\ editId' = editId

\* resetForm, lines 155-157
resetForm ==
    /\ title' = <<>>
    /\ url' = <<>>
    /\ description' = <<>>
    /\ tag' = ""
    /\ editId' = NoId

\* line 296
OpenAdd ==
    /\ Rendered /\ NoOverlay
    /\ resetForm
    /\ panelOpen' = TRUE
    /\ Did("OpenAdd", NoId, TRUE)
    /\ UNCHANGED <<sessionVars, bookmarks, filtered, filterVars, deleteTarget,
                   toastVars, submitting, envVars>>

\* line 426: the button of the empty vault
OpenAddFirst ==
    /\ Rendered /\ NoOverlay
    /\ filtered = <<>> /\ search = <<>> /\ activeTag = "All"
    /\ panelOpen' = TRUE
    /\ Did("OpenAddFirst", NoId, TRUE)
    /\ UNCHANGED <<sessionVars, bookmarks, filtered, formVars, filterVars,
                   deleteTarget, toastVars, submitting, envVars>>

\* openEdit, lines 159-163, on the i-th card or row
OpenEdit(i) ==
    /\ Rendered /\ NoOverlay
    /\ i \in 1..Len(filtered)
    /\ title' = filtered[i].title
    /\ url' = filtered[i].url
    /\ description' = orEmptyText(filtered[i].description)
    /\ tag' = orEmptyTag(filtered[i].tag)
    /\ editId' = filtered[i].id
    /\ panelOpen' = TRUE
    /\ Did("openEdit", filtered[i].id, TRUE)
    /\ UNCHANGED <<sessionVars, bookmarks, filtered, filterVars, deleteTarget,
                   toastVars, submitting, envVars>>

\* a close control that would leave the form as it is
ClosePanelKeepsForm ==
    /\ Rendered /\ panelOpen
    /\ panelOpen' = FALSE
    /\ Did("ClosePanel", NoId, TRUE)
    /\ UNCHANGED <<sessionVars, bookmarks, filtered, formVars, filterVars,
                   deleteTarget, toastVars, submitting, envVars>>

\* lines 452 and 461
ClosePanel ==
    /\ Rendered /\ panelOpen
    /\ panelOpen' = FALSE
    /\ resetForm
    /\ Did("ClosePanel", NoId, TRUE)
    /\ UNCHANGED <<sessionVars, bookmarks, filtered, filterVars, deleteTarget,
                   toastVars, submitting, envVars>>

\* line 470
SetTitle(t) ==
    /\ Rendered /\ panelOpen
    /\ t # title
    /\ title' = t
    /\ Did("SetTitle", NoId, TRUE)
    /\ UNCHANGED <<sessionVars, bookmarks, filtered, url, description, tag,
                   editId, filterVars, panelOpen, deleteTarget, toastVars,
                   submitting, envVars>>

\* line 475, onChange
SetUrl(l) ==
    /\ Rendered /\ panelOpen
    /\ l # url
    /\ url' = l
    /\ Did("SetUrl", NoId, TRUE)
    /\ UNCHANGED <<sessionVars, bookmarks, filtered, title, description, tag,
                   editId, filterVars, panelOpen, deleteTarget, toastVars,
                   submitting, envVars>>

\* line 480
SetDescription(d) ==
    /\ Rendered /\ panelOpen
    /\ d # description
    /\ description' = d
    /\ Did("SetDescription", NoId, TRUE)
    /\ UNCHANGED <<sessionVars, bookmarks, filtered, title, url, tag, editId,
                   filterVars, panelOpen, deleteTarget, toastVars, submitting,
                   envVars>>

\* line 487
ToggleTag(t) ==
    /\ Rendered /\ panelOpen
    /\ tag' = IF tag = t THEN "" ELSE t
    /\ Did("ToggleTag", NoId, TRUE)
    /\ UNCHANGED <<sessionVars, bookmarks, filtered, title, url, description,
                   editId, filterVars, panelOpen, deleteTarget, toastVars,
                   submitting, envVars>>

\* a guard that forgets to trim
canSubmitUntrimmed == title # <<>> /\ url # <<>>

\* line 166: the guard of handleSubmit
canSubmit == trim(title) # <<>> /\ trim(url) # <<>>

\* handleSubmit up to its await, lines 166-169 and 173
handleSubmit(how) ==
    IF ~canSubmit
    THEN /\ Did(how, editId, FALSE)
         /\ UNCHANGED <<submitting, writeReqs>>
    ELSE /\ Len(writeReqs) < MaxWrites
         /\ submitting' = TRUE
         /\ writeReqs' = Append(writeReqs,
                [kind |-> IF editId # NoId THEN "update" ELSE "insert",
                 id |-> editId, title |-> title, url |-> url,
                 description |-> description, tag |-> tag, user_id |-> user,
                 who |-> authSession, stage |-> "sent", ok |-> FALSE])
         /\ Did(how, editId, TRUE)

\* line 494: the submit button, enabled
SubmitClick ==
    /\ Rendered /\ panelOpen
    /\ canSubmit /\ ~submitting
    /\ handleSubmit("SubmitClick")
    /\ UNCHANGED <<sessionVars, bookmarks, filtered, formVars, filterVars,
                   panelOpen, deleteTarget, toastVars, authVars, db, nextId,
                   fetchReqs, deleteReqs, events>>

\* line 475, onKeyDown: Enter in the URL field
SubmitEnter ==
    /\ Rendered /\ panelOpen
    /\ handleSubmit("SubmitEnter")
    /\ UNCHANGED <<sessionVars, bookmarks, filtered, formVars, filterVars,
                   panelOpen, deleteTarget, toastVars, authVars, db, nextId,
                   fetchReqs, deleteReqs, events>>

\* the storage collaborator answers an insert or an update. Row level
\* security accepts an insert for the requester's own user_id alone and lets
\* an update touch the requester's rows alone.
ServeWrite(i, ok, c) ==
    /\ writeReqs[i].stage = "sent"
    /\ LET w == writeReqs[i]
           row == Row(nextId, w.user_id, w.title, w.url, w.description, w.tag, c)
           hit == {r \in RowsOf(w.who) : r.id = w.id}
           Upd(r) == [r EXCEPT !.title = w.title, !.url = w.url,
                               !.description = w.description, !.tag = w.tag]
       IN IF ~ok
          THEN UNCHANGED <<db, nextId, events>>
          ELSE IF w.kind = "insert"
          THEN /\ w.who = w.user_id
               /\ nextId <= MaxId
               /\ CanEmit(w.user_id)
               /\ db' = db \cup {row}
               /\ nextId' = nextId + 1
               /\ events' = Emit("INSERT", row, NoRow, w.user_id)
          ELSE /\ \A r \in hit : CanEmit(r.user_id)
               /\ db' = (db \ hit) \cup {Upd(r) : r \in hit}
               /\ events' = IF hit # {}
                            THEN LET r == CHOOSE x \in hit : TRUE
                                 IN Emit("UPDATE", Upd(r), r, r.user_id)
                            ELSE events
               /\ UNCHANGED nextId
    /\ writeReqs' = [writeReqs EXCEPT ![i] = [@ EXCEPT !.stage = "served", !.ok = ok]]
    /\ Did("ServeWrite", writeReqs[i].id, ok)
    /\ UNCHANGED <<pageVars, authVars, fetchReqs, deleteReqs>>

\* a handleSubmit that, when its insert succeeds, puts the record it sent in
\* front of the mirror itself
WriteResolveOptimistic(i) ==
    /\ writeReqs[i].stage = "served"
    /\ writeReqs' = RemoveAt(writeReqs, i)
    /\ IF writeReqs[i].ok
       THEN /\ toast(IF writeReqs[i].kind = "update"
                     THEN "Bookmark updated" ELSE "Bookmark saved")
            /\ resetForm
            /\ panelOpen' = FALSE
            /\ bookmarks' =
                  IF writeReqs[i].kind = "insert"
                  THEN LET w == writeReqs[i]
                       IN <<Row(NoId, w.user_id, w.title, w.url, w.description,
                                w.tag, 0)>> \o bookmarks
                  ELSE bookmarks
       ELSE /\ toast(IF writeReqs[i].kind = "update"
                     THEN "Failed to update" ELSE "Failed to save")
            /\ UNCHANGED <<formVars, panelOpen, bookmarks>>
    /\ submitting' = FALSE
    /\ Did("WriteResolve", writeReqs[i].id, writeReqs[i].ok)
    /\ UNCHANGED <<sessionVars, filterVars, deleteTarget,
                   authVars, db, nextId, fetchReqs, deleteReqs, events>>
    /\ RecomputeFiltered

\* handleSubmit after its await, lines 170-171, 174-175 and 177
WriteResolve(i) ==
    /\ writeReqs[i].stage = "served"
    /\ writeReqs' = RemoveAt(writeReqs, i)
    /\ IF writeReqs[i].ok
       THEN /\ toast(IF writeReqs[i].kind = "update"
                     THEN "Bookmark updated" ELSE "Bookmark saved")
            /\ resetForm
            /\ panelOpen' = FALSE
       ELSE /\ toast(IF writeReqs[i].kind = "update"
                     THEN "Failed to update" ELSE "Failed to save")
            /\ UNCHANGED <<formVars, panelOpen>>
    /\ submitting' = FALSE
    /\ Did("WriteResolve", writeReqs[i].id, writeReqs[i].ok)
    /\ UNCHANGED <<sessionVars, bookmarks, filtered, filterVars, deleteTarget,
                   authVars, db, nextId, fetchReqs, deleteReqs, events>>

(***************************************************************************)
(* Specifications.                                                         *)
(***************************************************************************)
\* the page as first rendered: lines 49-72, with the getSession() request of
\* line 95 sent and the auth subscription of line 99 open
PageInit ==
    /\ user = NoUser /\ loading = TRUE
    /\ bookmarks = <<>> /\ filtered = <<>>
    /\ title = <<>> /\ url = <<>> /\ description = <<>> /\ tag = ""
    /\ search = <<>> /\ activeTag = "All" /\ sortBy = "newest"
    /\ panelOpen = FALSE /\ deleteTarget = NoId /\ toastMsg = NoToast
    /\ editId = NoId /\ submitting = FALSE
    /\ userIdRef = NoUser /\ toastTimers = 0 /\ channel = NoChannel

Init ==
    /\ PageInit
    /\ authSession \in {"A", NoUser}
    /\ authChanges = 0
    /\ sessionReq = [stage |-> "sent", val |-> NoUser]
    /\ authEvents = <<>>
    /\ db = {} /\ nextId = 1
    /\ fetchReqs = <<>> /\ writeReqs = <<>> /\ deleteReqs = <<>>
    /\ events = <<>>
    /\ last = [op |-> "-", id |-> NoId, ok |-> TRUE]

\* the users whose other tabs save bookmarks while the page runs
SyncCreators == {"A"}

\* session, mirror, realtime and delete
SyncNext ==
    \/ ServeSession
    \/ GetSessionResolve
    \/ \E u \in Users \cup {NoUser} : AuthChange(u)
    \/ HandleAuthEvent
    \/ ChannelJoin
    \/ \E i \in 1..Len(fetchReqs), ok \in BOOLEAN : ServeFetch(i, ok)
    \/ \E i \in 1..Len(fetchReqs) : FetchResolve(i)
    \/ \E u \in SyncCreators, g \in ElsewhereTags, c \in 1..MaxId : CreateElsewhere(u, g, c)
    \/ HandleEvent
    \/ \E id \in 1..MaxId : RequestDelete(id)
    \/ CancelDelete
    \/ ConfirmDelete
    \/ \E i \in 1..Len(deleteReqs), ok, applied \in BOOLEAN : ServeDelete(i, ok, applied)
    \/ \E i \in 1..Len(deleteReqs) : DeleteResolve(i)
    \/ ToastTimeout

Spec == Init /\ [][SyncNext]_vars

\* the page of a signed-in user once the session request, the channel and
\* the first fetch have completed, the mirror holding the rows `rows` of the
\* table
SignedIn(rows) ==
    /\ bookmarks = rows
    /\ filtered = computeFiltered(rows, <<>>, "All", "newest")
    /\ user = "A" /\ loading = FALSE
    /\ title = <<>> /\ url = <<>> /\ description = <<>> /\ tag = ""
    /\ search = <<>> /\ activeTag = "All" /\ sortBy = "newest"
    /\ panelOpen = FALSE /\ deleteTarget = NoId /\ toastMsg = NoToast
    /\ editId = NoId /\ submitting = FALSE
    /\ userIdRef = "A" /\ toastTimers = 0
    /\ channel = [filter |-> "A", joined |-> TRUE]
    /\ authSession = "A" /\ authChanges = 0
    /\ sessionReq = [stage |-> "done", val |-> "A"]
    /\ authEvents = <<>>
    /\ db = Range(rows)
    /\ fetchReqs = <<>> /\ writeReqs = <<>> /\ deleteReqs = <<>>
    /\ events = <<>>
    /\ last = [op |-> "-", id |-> NoId, ok |-> TRUE]

\* an empty vault, or a vault of one bookmark saved earlier
FormInit ==
    /\ \E rows \in {<<>>, <<Row(1, "A", <<"a">>, <<"x">>, NullText, "Dev", 1)>>} :
           /\ SignedIn(rows)
           /\ nextId = Len(rows) + 1

\* the create/edit form, its writes and the events they cause
FormNext ==
    \/ OpenAdd
    \/ OpenAddFirst
    \/ \E i \in 1..MaxId : OpenEdit(i)
    \/ ClosePanel
    \/ \E t \in Titles : SetTitle(t)
    \/ \E l \in Urls : SetUrl(l)
    \/ SubmitClick
    \/ SubmitEnter
    \/ \E i \in 1..Len(writeReqs), ok \in BOOLEAN : ServeWrite(i, ok, 1)
    \/ \E i \in 1..Len(writeReqs) : WriteResolve(i)
    \/ HandleEvent
    \/ ToastTimeout

SpecForm == FormInit /\ [][FormNext]_vars

\* rows the derived-view specification draws its mirrors from
ViewPool ==
    { Row(1, "A", <<"a">>, <<"x">>, NullText, "Dev", 1),
      Row(2, "A", <<"B">>, <<"x">>, <<"a">>, "Design", 2),
      Row(3, "A", <<"A", "b">>, <<"x">>, <<>>, "", 2),
      Row(4, "A", <<"b">>, <<"A">>, NullText, "Dev", 3),
      Row(5, "A", <<"A">>, <<"b">>, <<"B">>, Null, 1),
      Row(6, "A", <<"B">>, <<"x">>, NullText, "Dev", 3),
      Row(7, "A", <<"a">>, <<"b">>, <<"A", "B">>, "Design", 2),
      Row(8, "A", <<"b", "A">>, <<"x">>, NullText, "Dev", 1) }

\* the mirrors of at most MaxLen rows of the pool, in every order
ViewMirrors ==
    UNION {{s \in [1..n -> ViewPool] : \A i, j \in 1..n : i # j => s[i] # s[j]} :
           n \in 0..MaxLen}

\* the mirror holding rows of the table in some order of arrival
ViewInit ==
    /\ \E rows \in ViewMirrors : SignedIn(rows)
    /\ nextId = Cardinality(ViewPool) + 1

SortKeys == {"newest", "oldest", "alpha"}

\* the filter bar alone
ViewNext ==
    \/ \E q \in Queries : SetSearch(q)
    \/ \E t \in Range(TAG_OPTIONS) \cup {"All"} : SetActiveTag(t)
    \/ \E k \in SortKeys : SetSortBy(k)

SpecView == ViewInit /\ [][ViewNext]_vars

\* session, mirror and realtime, with the event loop running the realtime
\* callback for every event the channel has delivered
LiveNext ==
    \/ ServeSession
    \/ GetSessionResolve
    \/ \E u \in Users \cup {NoUser} : AuthChange(u)
    \/ HandleAuthEvent
    \/ ChannelJoin
    \/ \E i \in 1..Len(fetchReqs), ok \in BOOLEAN : ServeFetch(i, ok)
    \/ \E i \in 1..Len(fetchReqs) : FetchResolve(i)
    \/ \E u \in Users, g \in ElsewhereTags, c \in 1..MaxId : CreateElsewhere(u, g, c)
    \/ HandleEvent

SpecLive == Init /\ [][LiveNext]_vars /\ WF_vars(HandleEvent)

\* a vault of two bookmarks, the older one with a note and another tag
EditRows ==
    <<Row(2, "A", <<"a">>, <<"x">>, NullText, "Dev", 2),
      Row(1, "A", <<"b">>, <<"x">>, <<"b">>, "Design", 1)>>

\* the title the user retypes while editing
EditTitles == {<<"a">>}

EditInit ==
    /\ SignedIn(EditRows)
    /\ nextId = Len(EditRows) + 1

\* editing and deleting the bookmarks of the vault, with the responses and
\* the events that follow
EditNext ==
    \/ \E i \in 1..MaxId : OpenEdit(i)
    \/ ClosePanel
    \/ \E t \in EditTitles : SetTitle(t)
    \/ SubmitClick
    \/ \E i \in 1..Len(writeReqs), ok \in BOOLEAN : ServeWrite(i, ok, 1)
    \/ \E i \in 1..Len(writeReqs) : WriteResolve(i)
    \/ \E id \in 1..MaxId : RequestDelete(id)
    \/ CancelDelete
    \/ ConfirmDelete
    \/ \E i \in 1..Len(deleteReqs), ok, applied \in BOOLEAN : ServeDelete(i, ok, applied)
    \/ \E i \in 1..Len(deleteReqs) : DeleteResolve(i)
    \/ \E i \in 1..Len(fetchReqs), ok \in BOOLEAN : ServeFetch(i, ok)
    \/ \E i \in 1..Len(fetchReqs) : FetchResolve(i)
    \/ HandleEvent
    \/ ToastTimeout

SpecEdit == EditInit /\ [][EditNext]_vars

\* the tag strip over the vault of two bookmarks, and their deletion
TagInit ==
    /\ SignedIn(EditRows)
    /\ nextId = Len(EditRows) + 1

TagNext ==
    \/ \E t \in Range(TAG_OPTIONS) \cup {"All"} : SetActiveTag(t)
    \/ \E id \in 1..MaxId : RequestDelete(id)
    \/ CancelDelete
    \/ ConfirmDelete
    \/ \E i \in 1..Len(deleteReqs), ok, applied \in BOOLEAN : ServeDelete(i, ok, applied)
    \/ \E i \in 1..Len(deleteReqs) : DeleteResolve(i)
    \/ \E i \in 1..Len(fetchReqs), ok \in BOOLEAN : ServeFetch(i, ok)
    \/ \E i \in 1..Len(fetchReqs) : FetchResolve(i)
    \/ HandleEvent
    \/ ToastTimeout

SpecTag == TagInit /\ [][TagNext]_vars

(***************************************************************************)
(* Properties.                                                             *)
(***************************************************************************)
\* C1. Optimistic delete: in the state right after handleDelete(X) has run
\* up to its await, with the delete request sent and not yet answered, X is
\* not in the mirror and the confirmation dialog's target is cleared.
C1_OptimisticDelete ==
    last.op = "handleDelete" =>
        /\ last.id \notin Ids(bookmarks)
        /\ deleteTarget = NoId
        /\ \E i \in 1..Len(deleteReqs) :
               deleteReqs[i].id = last.id /\ deleteReqs[i].stage = "sent"

\* handleDelete has just removed a bookmark the table still holds, and left
\* another one in the mirror
C1_Witness ==
    /\ last.op = "handleDelete"
    /\ \E r \in db : r.id = last.id
    /\ bookmarks # <<>>
    /\ \E i \in 1..Len(deleteReqs) : deleteReqs[i].stage = "sent"

\* C2 as stated. Once the refetch that follows the failed delete of X has
\* completed, the mirror holds what the backend holds: X is in the mirror
\* again whenever the table still has X.
C2_RefetchRestoresAlways ==
    (last.op = "RefetchResolve" /\ \E r \in db : r.id = last.id)
        => last.id \in Ids(bookmarks)

\* C2, amended. A failed delete of X sends one bulk fetch. When that fetch
\* completes without error the mirror becomes the sequence the backend
\* returned, which has X if the backend holds X for the requester; when it
\* completes with an error the mirror stays as it was.
C2_RefetchRestores ==
    [][/\ \A i \in 1..Len(deleteReqs) :
              (DeleteResolve(i) /\ ~deleteReqs[i].ok) =>
                  /\ Len(fetchReqs') = Len(fetchReqs) + 1
                  /\ fetchReqs'[Len(fetchReqs')].after = deleteReqs[i].id
                  /\ fetchReqs'[Len(fetchReqs')].stage = "sent"
       /\ \A i \in 1..Len(fetchReqs) :
              (FetchResolve(i) /\ fetchReqs[i].after # NoId) =>
                  IF fetchReqs[i].ok
                  THEN /\ bookmarks' = fetchReqs[i].data
                       /\ (\E r \in RowsOf(fetchReqs[i].who) : r.id = fetchReqs[i].after)
                              => fetchReqs[i].after \in Ids(bookmarks')
                  ELSE bookmarks' = bookmarks
      ]_vars

\* the refetch after the failed delete of X has completed and X, which the
\* table still holds, is in the mirror again
C2_Witness ==
    /\ last.op = "RefetchResolve" /\ last.ok
    /\ last.id \in Ids(bookmarks)
    /\ \E r \in db : r.id = last.id

\* C4. While the bookmark view is on screen for identity I, every record of
\* the mirror belongs to I; stated for the case the claim singles out: after
\* the identity has changed from A to B, the mirror shown to B holds no
\* record owned by A.
C4_MirrorOfIdentity ==
    (Rendered /\ user = "B") =>
        \A i \in 1..Len(bookmarks) : bookmarks[i].user_id # "A"

\* C6. Handling an insert event for record r turns mirror M into r followed
\* by M, whatever r's creation time.
C6_InsertPrepends ==
    [][(HandleEvent /\ Head(events).eventType = "INSERT")
          => bookmarks' = <<Head(events).new>> \o bookmarks]_vars

\* an insert event has put a record in front of a record created later
C6_Witness ==
    /\ last.op = "INSERT"
    /\ Len(bookmarks) >= 2
    /\ bookmarks[1].id = last.id
    /\ bookmarks[1].created_at < bookmarks[2].created_at

\* C5. Cross-session realtime: a bookmark that another session of the
\* identity creates while this page holds a joined subscription for that
\* identity (so that its insert event is on the channel) is eventually in
\* the mirror, unless the page stops being a session of that identity and
\* its subscription is released first.
C5_CreatedElsewhereArrives ==
    \A id \in 1..MaxId :
        (\E k \in 1..Len(events) :
             events[k].eventType = "INSERT" /\ events[k].new.id = id)
        ~> (id \in Ids(bookmarks) \/ ~channel.joined)

\* a bookmark created by another session has reached the mirror of a page
\* that is still subscribed for its owner, through its insert event alone
C5_Witness ==
    /\ last.op = "INSERT"
    /\ last.id \in Ids(bookmarks)
    /\ Subscribed(bookmarks[1].user_id)
    /\ user = bookmarks[1].user_id

\* C3. At most one create/update write request is outstanding at any time,
\* whatever the user clicks or types.
C3_OneWriteInFlight == Len(writeReqs) <= 1

\* C7. A submission whose title or URL is empty after trimming sends no
\* write and changes nothing: the submitting flag, the form, the panel, the
\* mirror, the notification and the requests in flight stay as they were.
C7_InvalidSubmitIsNoOp ==
    [][(SubmitEnter /\ (trim(title) = <<>> \/ trim(url) = <<>>))
          => UNCHANGED <<pageVars, envVars>>]_vars

\* Enter was pressed in the URL field of a form whose title is blank space,
\* and no write is in flight
C7_Witness ==
    /\ last.op = "SubmitEnter" /\ ~last.ok
    /\ title = <<" ">> /\ url = <<"x">>
    /\ panelOpen /\ ~submitting
    /\ writeReqs = <<>>

\* the characters c and d are equal up to case
SameLetter(c, d) ==
    \/ c = d
    \/ {c, d} \in {{"a", "A"}, {"b", "B"}, {"x", "X"}}

\* text s contains q, case-insensitively
ContainsIgnoringCase(s, q) ==
    \E i \in 0..(Len(s) - Len(q)) :
        \A k \in 1..Len(q) : SameLetter(s[i + k], q[k])

\* record b matches query q through its title, its URL or its note
Matches(b, q) ==
    \/ ContainsIgnoringCase(b.title, q)
    \/ ContainsIgnoringCase(b.url, q)
    \/ (b.description # NullText /\ ContainsIgnoringCase(b.description, q))

\* s is a subsequence of t picked by strictly increasing positions
IsSubSeqAt(s, t, pos) ==
    /\ \A i \in 1..Len(s) : s[i] = t[pos[i]]
    /\ \A i \in 1..(Len(s) - 1) : pos[i] < pos[i + 1]

\* the positions of the mirror whose record matches the query
MatchingPositions == {j \in 1..Len(bookmarks) : Matches(bookmarks[j], search)}

\* C8. With tag 'All' and sort 'newest' the derived view is exactly the
\* subsequence of the mirror, in mirror order, of the records whose title,
\* URL or note contains the query case-insensitively; the empty query
\* yields the whole mirror.
C8_SearchIsExactSubsequence ==
    (activeTag = "All" /\ sortBy = "newest") =>
        /\ Len(filtered) = Cardinality(MatchingPositions)
        /\ \E pos \in [1..Len(filtered) -> MatchingPositions] :
               IsSubSeqAt(filtered, bookmarks, pos)
        /\ search = <<>> => filtered = bookmarks

\* a query in capitals keeps a record that matches through its URL alone and
\* one that matches through its note alone, and drops a record in between
C8_Witness ==
    /\ activeTag = "All" /\ sortBy = "newest"
    /\ search = <<"A">>
    /\ Len(bookmarks) = 3 /\ Len(filtered) = 2
    /\ filtered[1] = bookmarks[1] /\ filtered[2] = bookmarks[3]
    /\ ~ContainsIgnoringCase(filtered[1].title, search)
    /\ ~ContainsIgnoringCase(filtered[1].url, search)
    /\ ~ContainsIgnoringCase(filtered[2].title, search)
    /\ filtered[2].description = NullText

\* C9. With an active tag T other than 'All', every record of the derived
\* view has tag T and every mirror record with tag T that passes the query
\* is in the view; with 'All', every mirror record that passes the query is
\* in the view, tagged or not.
C9_TagFilter ==
    /\ activeTag # "All" =>
           /\ \A i \in 1..Len(filtered) : filtered[i].tag = activeTag
           /\ \A j \in MatchingPositions :
                  bookmarks[j].tag = activeTag => bookmarks[j] \in Range(filtered)
    /\ activeTag = "All" =>
           \A j \in MatchingPositions : bookmarks[j] \in Range(filtered)

\* the tag 'Dev' is active over a mirror that also holds a 'Design' record
\* and an untagged one
C9_Witness ==
    /\ activeTag = "Dev"
    /\ filtered # <<>>
    /\ \E j \in 1..Len(bookmarks) : bookmarks[j].tag = "Design"
    /\ \E j \in 1..Len(bookmarks) : bookmarks[j].tag \in {"", Null}

\* the records that pass the query and the tag filter
Passing ==
    {bookmarks[j] : j \in {k \in MatchingPositions :
                              activeTag = "All" \/ bookmarks[k].tag = activeTag}}

\* C10. With sort key 'oldest' the derived view is a permutation of the
\* filtered records that is non-decreasing by creation time; with 'alpha' it
\* is a permutation that is non-decreasing by title under localeCompare.
C10_Sorted ==
    sortBy \in {"oldest", "alpha"} =>
        /\ Len(filtered) = Cardinality(Passing)
        /\ Range(filtered) = Passing
        /\ sortBy = "oldest" =>
               \A i \in 1..(Len(filtered) - 1) :
                   getTime(filtered[i].created_at) <= getTime(filtered[i + 1].created_at)
        /\ sortBy = "alpha" =>
               \A i \in 1..(Len(filtered) - 1) :
                   localeCompare(filtered[i].title, filtered[i + 1].title) <= 0

\* the 'alpha' sort has moved the last record of a mirror of three to the
\* front, a lower-case title before a capital one
C10_Witness ==
    /\ sortBy = "alpha" /\ search = <<>> /\ activeTag = "All"
    /\ Len(bookmarks) = 3
    /\ filtered[1] = bookmarks[3]
    /\ filtered[1].title = <<"a">>
    /\ filtered[2].title = <<"A">>

\* C11. With sort key 'newest', the empty query and tag 'All', the derived
\* view is the mirror itself: the same records in the same order, also after
\* an insert event has put an older record in front of a newer one.
C11_NewestIsMirrorOrder ==
    (sortBy = "newest" /\ search = <<>> /\ activeTag = "All")
        => filtered = bookmarks

\* an insert event has left the mirror out of creation order, and the view
\* shows the older record first
C11_Witness ==
    /\ sortBy = "newest" /\ search = <<>> /\ activeTag = "All"
    /\ last.op = "INSERT"
    /\ Len(filtered) = 2
    /\ filtered[1].id = last.id
    /\ getTime(filtered[1].created_at) < getTime(filtered[2].created_at)

\* C12. The derived view is a function of the mirror, the query, the active
\* tag and the sort key: in every state it is what the derived-view effect
\* computes from the current four inputs, so states that agree on the inputs
\* agree on the view.
C12_ViewIsFunctionOfInputs ==
    filtered = computeFiltered(bookmarks, search, activeTag, sortBy)

\* the view after the query, the tag and the sort key have all been changed:
\* it differs from the mirror in length and in order
C12_Witness ==
    /\ search = <<"a">> /\ activeTag = "Dev" /\ sortBy = "alpha"
    /\ Len(bookmarks) = 3 /\ Len(filtered) = 2
    /\ filtered[1] = bookmarks[3] /\ filtered[2] = bookmarks[1]

\* nothing is in flight: the session request, every auth notification, every
\* select, write and delete response and every realtime event has been
\* delivered, and the page shows the bookmarks of a signed-in user over a
\* joined channel
Quiescent ==
    /\ Rendered
    /\ user = authSession
    /\ channel.joined
    /\ sessionReq.stage = "done"
    /\ authEvents = <<>>
    /\ fetchReqs = <<>> /\ writeReqs = <<>> /\ deleteReqs = <<>>
    /\ events = <<>>

\* C13. Eventual consistency: once every response and event in flight has
\* been delivered, the identifiers in the mirror are the identifiers of the
\* rows the backend holds for the current identity.
C13_EventuallyConsistent ==
    Quiescent => Ids(bookmarks) = {r.id : r \in RowsOf(user)}

\* C14 as stated. An update event for X that is handled after the optimistic
\* delete of X, while the delete request is still in flight and X is absent
\* from the mirror, makes X present in the mirror again.
C14_UpdateResurrects ==
    [][(/\ HandleEvent
        /\ Head(events).eventType = "UPDATE"
        /\ Head(events).new.id \notin Ids(bookmarks)
        /\ \E i \in 1..Len(deleteReqs) : deleteReqs[i].id = Head(events).new.id)
          => Head(events).new.id \in Ids(bookmarks')]_vars

\* C14, amended. An update event for X that is handled after the optimistic
\* delete of X does not resurrect X: handling an update event whose
\* identifier is absent from the mirror leaves the mirror as it was.
C14_UpdateNeverResurrects ==
    [][(/\ HandleEvent
        /\ Head(events).eventType = "UPDATE"
        /\ Head(events).new.id \notin Ids(bookmarks))
          => bookmarks' = bookmarks]_vars

\* the update event of an earlier edit of X has just been handled while the
\* delete request for X is unanswered: the table holds X, the mirror does not
C14_Witness ==
    /\ last.op = "UPDATE"
    /\ last.id \notin Ids(bookmarks)
    /\ \E r \in db : r.id = last.id /\ r.title = <<"a">>
    /\ \E i \in 1..Len(deleteReqs) :
           deleteReqs[i].id = last.id /\ deleteReqs[i].stage = "sent"

\* the owner of the row an event is about
EventOwner(e) == IF e.eventType = "DELETE" THEN e.old.user_id ELSE e.new.user_id

\* C15. The record-change subscription is released whenever the identity
\* changes or is cleared: the one channel the page holds is scoped to the
\* current identity, none is held while the identity is absent, and every
\* event waiting to be applied to the mirror is about a row of the current
\* identity.
C15_SubscriptionScoped ==
    /\ channel # NoChannel => channel.filter = user
    /\ user = NoUser => (channel = NoChannel /\ events = <<>>)
    /\ \A k \in 1..Len(events) : EventOwner(events[k]) = user

\* after the identity went from A through sign-out to B, the page holds a
\* joined channel for B with an event about a row of B on it
C15_Witness ==
    /\ authChanges = 2
    /\ user = "B"
    /\ Subscribed("B")
    /\ events # <<>>
    /\ \E r \in db : r.user_id = "A"

\* C16. In every reachable state the mirror is ordered newest first: the
\* creation times of its records are non-increasing.
C16_MirrorNewestFirst ==
    \A i \in 1..(Len(bookmarks) - 1) :
        getTime(bookmarks[i].created_at) >= getTime(bookmarks[i + 1].created_at)

\* C17. Handling an update event for identifier X replaces the mirror entry
\* with identifier X by the event's record at the same position; the length
\* of the mirror and every other record, at its position, are unchanged.
C17_UpdateInPlace ==
    [][(HandleEvent /\ Head(events).eventType = "UPDATE") =>
          /\ Len(bookmarks') = Len(bookmarks)
          /\ \A i \in 1..Len(bookmarks) :
                 bookmarks'[i] = IF bookmarks[i].id = Head(events).new.id
                                 THEN Head(events).new
                                 ELSE bookmarks[i]]_vars

\* the update event of an edit that retitled the second record of the mirror
\* has been handled: the record is still second and carries the new title
C17_Witness ==
    /\ last.op = "UPDATE"
    /\ Len(bookmarks) = 2
    /\ bookmarks[1] = EditRows[1]
    /\ bookmarks[2].id = last.id
    /\ bookmarks[2] # EditRows[2]
    /\ bookmarks[2].title = <<"a">>
    /\ bookmarks[2] \in db

\* C18. Handling a delete event for identifier X removes every mirror entry
\* with identifier X and leaves the other records in their previous relative
\* order; when no entry has identifier X, as after the optimistic removal,
\* the mirror is unchanged.
C18_DeleteEventRemoves ==
    [][(HandleEvent /\ Head(events).eventType = "DELETE") =>
          LET X == Head(events).old.id
              Kept == {i \in 1..Len(bookmarks) : bookmarks[i].id # X}
          IN /\ X \notin Ids(bookmarks')
             /\ Len(bookmarks') = Cardinality(Kept)
             /\ \E pos \in [1..Len(bookmarks') -> Kept] :
                    IsSubSeqAt(bookmarks', bookmarks, pos)
             /\ X \notin Ids(bookmarks) => bookmarks' = bookmarks]_vars

\* the delete event of a bookmark that handleDelete had already removed from
\* the mirror has been handled, before the delete response: the other
\* bookmark is still in the mirror
C18_Witness ==
    /\ last.op = "DELETE"
    /\ bookmarks # <<>>
    /\ last.id \notin Ids(bookmarks)
    /\ \A r \in db : r.id # last.id
    /\ \E i \in 1..Len(deleteReqs) :
           deleteReqs[i].id = last.id /\ deleteReqs[i].stage = "served"

\* C19. Create and update submissions never modify the mirror themselves:
\* handleSubmit before and after its await, and the backend's answer to the
\* write, leave the mirror as it was, and the mirror changes only when a
\* realtime event is handled or a bulk fetch resolves.
C19_SubmitLeavesMirror ==
    [][/\ (\/ SubmitClick
           \/ SubmitEnter
           \/ \E i \in 1..Len(writeReqs), ok \in BOOLEAN : ServeWrite(i, ok, 1)
           \/ \E i \in 1..Len(writeReqs) : WriteResolve(i))
          => bookmarks' = bookmarks
       /\ bookmarks' # bookmarks
          => (HandleEvent \/ \E i \in 1..Len(fetchReqs) : FetchResolve(i))
      ]_vars

\* a create has completed with success and the mirror does not hold the new
\* record yet: its insert event is still waiting
C19_Witness ==
    /\ last.op = "WriteResolve" /\ last.ok
    /\ toastMsg = "Bookmark saved"
    /\ writeReqs = <<>>
    /\ \E k \in 1..Len(events) :
           /\ events[k].eventType = "INSERT"
           /\ events[k].new \in db
           /\ events[k].new.id \notin Ids(bookmarks)

\* C20. When a create/update write completes with success, the form fields
\* and the edit target are cleared, the panel is closed and a confirmation
\* is shown; when it completes with failure, an error notification is shown,
\* the form, the edit target and the open panel stay as they were and no
\* write is sent. In both cases the submitting flag becomes false.
C20_WriteCompletion ==
    [][\A i \in 1..Len(writeReqs) :
          WriteResolve(i) =>
              /\ submitting' = FALSE
              /\ Len(writeReqs') = Len(writeReqs) - 1
              /\ IF writeReqs[i].ok
                 THEN /\ title' = <<>> /\ url' = <<>> /\ description' = <<>>
                      /\ tag' = "" /\ editId' = NoId
                      /\ panelOpen' = FALSE
                      /\ toastMsg' \in {"Bookmark saved", "Bookmark updated"}
                 ELSE /\ UNCHANGED <<title, url, description, tag, editId, panelOpen>>
                      /\ toastMsg' \in {"Failed to save", "Failed to update"}
      ]_vars

\* an update has completed with failure: the error is shown, the panel is
\* open on the same bookmark with the form as typed, nothing is in flight
C20_Witness ==
    /\ last.op = "WriteResolve" /\ ~last.ok
    /\ toastMsg = "Failed to update"
    /\ panelOpen /\ editId = 1
    /\ title = <<"a">> /\ url = <<"x">>
    /\ ~submitting
    /\ writeReqs = <<>>

\* C21. A bulk fetch that returns an error leaves the mirror exactly as it
\* was; a bulk fetch that succeeds replaces the mirror with the returned
\* sequence. Neither raises a notification.
C21_FetchOutcome ==
    [][\A i \in 1..Len(fetchReqs) :
          FetchResolve(i) =>
              /\ bookmarks' = IF fetchReqs[i].ok THEN fetchReqs[i].data
                              ELSE bookmarks
              /\ UNCHANGED <<toastMsg, toastTimers>>
      ]_vars

\* a bulk fetch has just completed with an error over a mirror that holds a
\* bookmark: the mirror still holds it, and still lacks the bookmark whose
\* failed delete asked for the fetch
C21_Witness ==
    /\ last.op = "RefetchResolve" /\ ~last.ok
    /\ bookmarks # <<>>
    /\ last.id \notin Ids(bookmarks)
    /\ \E r \in db : r.id = last.id
    /\ fetchReqs = <<>>

\* C22. The loading flag becomes false when, and only when, the response to
\* the initial session request is handled, whether it carries a session or
\* none; that step sets the identity to the session's user or to none; and
\* once the flag is false it stays false.
C22_ResolvedOnSessionResponse ==
    [][/\ GetSessionResolve => (loading' = FALSE /\ user' = sessionReq.val)
       /\ loading' # loading => GetSessionResolve
       /\ ~loading => ~loading'
      ]_vars

\* the initial session request was answered with no session and its response
\* has been handled: the page is resolved and shows the login screen
C22_Witness ==
    /\ ~loading
    /\ user = NoUser
    /\ sessionReq = [stage |-> "done", val |-> NoUser]
    /\ authChanges = 0 /\ authEvents = <<>>

\* C23. The session store is kept current: once the initial session response
\* and every identity-change notification have been handled, the stored
\* identity is the identity the auth collaborator holds.
C23_StoreIsCurrent ==
    (sessionReq.stage = "done" /\ authEvents = <<>>) => user = authSession

\* C24. Changing the query, the active tag or the sort key, and the
\* recomputation of the derived view that follows, never changes the mirror:
\* its records and their order are the same before and after, also when the
\* 'oldest' or 'alpha' sort is applied.
C24_ViewLeavesMirror ==
    [][(\/ \E q \in Queries : SetSearch(q)
        \/ \E t \in Range(TAG_OPTIONS) \cup {"All"} : SetActiveTag(t)
        \/ \E k \in SortKeys : SetSortBy(k))
          => bookmarks' = bookmarks]_vars

\* the 'oldest' sort has reversed a view of three records; the mirror still
\* holds them newest first
C24_Witness ==
    /\ sortBy = "oldest" /\ search = <<>> /\ activeTag = "All"
    /\ Len(bookmarks) = 3
    /\ filtered = <<bookmarks[3], bookmarks[2], bookmarks[1]>>
    /\ getTime(bookmarks[1].created_at) > getTime(bookmarks[2].created_at)
    /\ getTime(bookmarks[2].created_at) > getTime(bookmarks[3].created_at)

\* C25. In every reachable state the mirror holds no two records with the
\* same identifier.
C25_NoDuplicateIds ==
    \A i, j \in 1..Len(bookmarks) :
        bookmarks[i].id = bookmarks[j].id => i = j

\* C26. Once record X has been removed optimistically and the backend has
\* deleted it and answered its delete request with success, X does not
\* reappear in the mirror; stated for the states in which every realtime
\* event has been handled, so that no delete event is left to remove X.
C26_DeletedStaysDeleted ==
    \A i \in 1..Len(deleteReqs) :
        (/\ deleteReqs[i].stage = "served"
         /\ deleteReqs[i].ok
         /\ \A r \in db : r.id # deleteReqs[i].id
         /\ events = <<>>)
            => deleteReqs[i].id \notin Ids(bookmarks)

\* C27. A success response to a create/update submission clears the form and
\* closes the panel only for the form contents that were submitted: when the
\* user has since closed the panel and opened the edit form of a bookmark,
\* the response leaves that form, its edit target and the open panel alone.
C27_SuccessSparesNewerForm ==
    [][\A i \in 1..Len(writeReqs) :
          (/\ WriteResolve(i)
           /\ writeReqs[i].ok
           /\ panelOpen
           /\ editId # NoId /\ editId # writeReqs[i].id)
              => UNCHANGED <<title, url, description, tag, editId, panelOpen>>
      ]_vars

\* C28. Every notification is dismissed by the timer started when it was
\* shown and by no other: as the timers fire in the order they were started,
\* while a timer is pending the notification shown last is still on screen.
C28_OwnTimerDismisses ==
    toastTimers > 0 => toastMsg # NoToast

\* C29. In every reachable state the active tag is an entry of the tag
\* strip: 'All', or a tag that a record of the mirror carries.
C29_ActiveTagOnStrip ==
    activeTag \in Range(allTags)

\* C30. In every reachable state in which the panel is closed, the form is
\* blank: the title, the URL and the description are empty, no tag is chosen
\* and there is no edit target.
C30_ClosedPanelBlankForm ==
    ~panelOpen =>
        /\ title = <<>>
        /\ url = <<>>
        /\ description = <<>>
        /\ tag = ""
        /\ editId = NoId

\* the panel was closed over a filled form while its write was in flight, the
\* write then failed, and the empty vault offers 'Add your first bookmark'
C30_Witness ==
    /\ ~panelOpen
    /\ last.op = "WriteResolve" /\ ~last.ok
    /\ title = <<>> /\ url = <<>> /\ editId = NoId
    /\ Rendered /\ NoOverlay
    /\ filtered = <<>> /\ search = <<>> /\ activeTag = "All"
====
